---- MODULE Spec2Model ----
(***************************************************************************)
(* SigNify Study: the response-streaming and aggregation layer.            *)
(*                                                                         *)
(* One process hosts one handler variant (ui) wired to one service variant *)
(* (svc).  The repository carries several revisions of both; every handler *)
(* consumes the service through the same interface (an async generator of  *)
(* { text, sources } fragments, a promise of a TranslatorResponse), so the *)
(* model checks every handler against every service.                       *)
(*                                                                         *)
(* JavaScript runs each handler to its next network await without          *)
(* interleaving: one action is one macrotask (a user event or a provider   *)
(* event) together with the microtasks it triggers.                        *)
(*                                                                         *)
(* The service worker (sw.js) runs beside the page and shares no state    *)
(* with it: SwSpec is its own state machine.                               *)
(*                                                                         *)
(* Texts are sequences of tokens (a token is a piece of a string), so that *)
(* string concatenation is \o and the string prefix order is the sequence  *)
(* prefix order.  An optional value is a sequence of length 0 or 1.        *)
(***************************************************************************)
EXTENDS Integers, Sequences, FiniteSets, TLC

\* ------------------------------------------------------------------ bounds
\* Provider chunks delivered in one process, over all its streams.
MaxChunks == 2
\* User requests (stream or translation) started in one process.
MaxRequests == 2
\* Fetch events the service worker is given in its lifetime.
MaxFetches == 3

\* ------------------------------------------------------- optional values
None == <<>>
Some(x) == <<x>>
IsSome(o) == Len(o) = 1
Get(o) == o[1]

\* ------------------------------------------------------------ variants
\* Handlers that fold fragments into a bot message with a citation list.
UiChat == "ChatComponent.handleSubmit"
UiApp == "App.handleSend"
UiQaFilter == "QAPage.handleSend/filter"
UiQaSet == "QAPage.handleSend/Set"
\* The lesson search: it folds fragment texts into one content string.
UiBooks == "BooksPage.handleSearch"
Uis == {UiChat, UiApp, UiQaFilter, UiQaSet, UiBooks}

\* Completion clients.
SvcLazy == "geminiService/gemini-3"
SvcChecked == "geminiService/gemini-2.5"
SvcServices == "services/geminiService"
SvcFresh == "geminiService/MODEL"
Svcs == {SvcLazy, SvcChecked, SvcServices, SvcFresh}

\* ------------------------------------------------------------ JS values
\* A thrown value: an Error with a message, or a non-Error value whose
\* String() is kept in str and whose .message is undefined.  The provider SDK and fetch reject with objects
\* or strings, never with null or undefined.
\* (message and str are texts.)
Err(m) == [isError |-> TRUE, message |-> m, str |-> <<"Error: ">> \o m]
Raw(s) == [isError |-> FALSE, message |-> <<>>, str |-> s]
InvalidUrl == Err(<<"Invalid URL">>)
ProviderErrors == {Err(<<"503 overloaded">>), Raw(<<"socket hang up">>)}

\* `${x}` of an optional text: undefined prints as "undefined".
JsStr(t) == IF IsSome(t) THEN Get(t) ELSE <<"undefined">>

\* String.prototype.trim on a token sequence: leading and trailing blanks go.
RECURSIVE TrimLeft(_)
TrimLeft(s) ==
  IF s # <<>> /\ Head(s) = " " THEN TrimLeft(Tail(s)) ELSE s

RECURSIVE TrimRight(_)
TrimRight(s) ==
  IF s # <<>> /\ s[Len(s)] = " " THEN TrimRight(SubSeq(s, 1, Len(s) - 1)) ELSE s

\* (a test of the text as typed, blanks included)
TrimNothing(s) == s

Trim(s) == TrimRight(TrimLeft(s))

IsPrefix(s, t) == Len(s) <= Len(t) /\ SubSeq(t, 1, Len(s)) = s

\* new URL(uri).hostname: the host of an absolute URL; anything else throws.
UrlA == "http://a.pk/1"
UrlB == "https://b.org/2"
UrlBad == "not a url"
ValidUrl(u) == u \in {UrlA, UrlB}
Hostname(u) == CASE u = UrlA -> "a.pk" [] u = UrlB -> "b.org"

\* ------------------------------------------------- provider chunks (inputs)
\* One grounding entry: c.web present or not, c.web.uri and c.web.title
\* ("" stands for a missing or empty string: both are falsy).
Entry(u, t) == [web |-> TRUE, uri |-> u, title |-> t]
NoWeb == [web |-> FALSE, uri |-> "", title |-> ""]

\* chunk.text (optional) and chunk.candidates?.[0]?.groundingMetadata
\* ?.groundingChunks (optional).
Chunk(t, g) == [text |-> t, grounding |-> g]

Chunks ==
  { Chunk(Some(<<"y">>), Some(<<Entry(UrlA, "A")>>)),
    Chunk(Some(<<"z">>), Some(<<Entry(UrlB, "B"), Entry(UrlA, "A2"), Entry(UrlA, "A3")>>)),
    Chunk(Some(<<>>), Some(<<>>)),
    Chunk(None, Some(<<NoWeb, Entry("", "T"), Entry(UrlB, "")>>)),
    Chunk(Some(<<"u">>), Some(<<Entry(UrlBad, "")>>)) }

\* --------------------------------------------------- Completion Client
\* getAi: does it throw for this key, and does it keep the client it built.
GetAiThrows(svc, key) == svc \in {SvcChecked, SvcFresh} /\ ~key

GetAiCaches(svc) == svc # SvcFresh

ConfigError(svc) ==
  IF svc = SvcChecked
  THEN Err(<<"API Key is missing. Ensure it is set in your environment variables.">>)
  ELSE Err(<<"API Key missing">>)

\* const text = chunk.text || "";   (services/geminiService: chunk.text)
ChunkText(svc, c) ==
  IF svc = SvcServices THEN c.text
  ELSE IF IsSome(c.text) /\ Get(c.text) # <<>> THEN c.text ELSE Some(<<>>)

\* .filter((c) => c.web && c.web.uri)
KeptEntries(g) == SelectSeq(g, LAMBDA e : e.web /\ e.uri # "")

\* c.web.title || new URL(c.web.uri).hostname     (MODEL revision: "Source")
TitleThrows(svc, e) == svc # SvcFresh /\ e.title = "" /\ ~ValidUrl(e.uri)

TitleOf(svc, e) ==
  IF e.title # "" THEN e.title
  ELSE IF svc = SvcFresh THEN "Source" ELSE Hostname(e.uri)

\* The .map over the kept entries; every object it creates is a new object,
\* identified by ref = <<ordinal of the chunk, position>>.
MapThrows(svc, c) ==
  IsSome(c.grounding) /\
  \E i \in 1..Len(KeptEntries(Get(c.grounding))) :
      TitleThrows(svc, KeptEntries(Get(c.grounding))[i])

ChunkSources(svc, c, n) ==
  IF IsSome(c.grounding)
  THEN LET k == KeptEntries(Get(c.grounding))
       IN [i \in 1..Len(k) |->
             [uri |-> k[i].uri, title |-> TitleOf(svc, k[i]), ref |-> <<n, i>>]]
  ELSE <<>>

\* yield { text, sources };
Fragment(svc, c, n) ==
  [text |-> ChunkText(svc, c), sources |-> ChunkSources(svc, c, n)]

\* The text of the fragment the catch block yields.
ErrorText(svc, e) ==
  CASE svc = SvcLazy ->
         <<"Error: ">> \o (IF e.isError THEN e.message ELSE <<"Connection failed.">>)
           \o <<". Please check your connection.">>
    [] svc = SvcChecked ->
         <<"Error: ", "Could not connect to the AI tutor. Please check your internet connection or API key status.">>
    [] svc = SvcServices ->
         <<"An error occurred: ">> \o (IF e.isError THEN e.message ELSE e.str)
    [] svc = SvcFresh ->
         <<"Error: ">> \o (IF e.isError /\ e.message # <<>> THEN e.message
                           ELSE <<"Failed to connect to AI">>)

\* (a catch block that yields a fragment without a message)
ErrorFragmentSilent(svc, e) == [text |-> Some(<<>>), sources |-> <<>>]

ErrorFragment(svc, e) == [text |-> Some(ErrorText(svc, e)), sources |-> <<>>]

\* ---- the request configuration of a stream
\* The stream function a view calls: streamQa(Response) or
\* streamGrammar(Response); the lesson, books and visual functions build the
\* same configuration as the Q&A one.
Feature(v) == IF v = "grammar" THEN "grammar" ELSE "qa"

UseWebGrounding(f) == f # "grammar"

GoogleSearch == Some("googleSearch")

\* The config object handed to generateContentStream: the keys it has and
\* the value under tools (None: undefined).  The MODEL revision writes
\* tools: useSearch ? [{ googleSearch: {} }] : undefined; the others list
\* tools only in the functions that search.
StreamConfig(svc, f) ==
  IF svc = SvcFresh
  THEN [keys |-> {"systemInstruction", "tools"},
        tools |-> IF UseWebGrounding(f) THEN GoogleSearch ELSE None]
  ELSE IF UseWebGrounding(f)
       THEN [keys |-> {"systemInstruction", "tools"}, tools |-> GoogleSearch]
       ELSE [keys |-> {"systemInstruction"}, tools |-> None]

\* `Fetch the content for Class ${className}, Subject ${subject}, Lesson:
\* ${lessonQuery} (Sindh Board).`
LessonPrompt(q) ==
  <<"Fetch the content for Class, Subject, Lesson: ">> \o q \o <<" (Sindh Board).">>

\* (a handler that reads its text field after clearing it)
ContentsCleared(u, s, q) == <<>>

\* The contents of the provider request for the text q the handler passes:
\* a chat question goes out as it is, streamLessonResponse puts the lesson
\* query into a sentence (streamBooks of the MODEL revision does not).
Contents(u, s, q) ==
  IF u = UiBooks /\ s \in {SvcLazy, SvcChecked} THEN LessonPrompt(q) ELSE q

StreamRequest(svc, f, contents) ==
  [feature |-> f, config |-> StreamConfig(svc, f), contents |-> contents]

\* ---- getTranslatorResponse / getTranslation
\* JSON.parse of the trimmed response text: one token names one document.
Docs == {"{doc1}", "{doc2}"}

DocOf(t) ==
  IF t = "{doc1}"
  THEN [mainTranslation |-> "salam", wordByWord |-> <<<<"hello", "salam">>>>,
        explanation |-> Some("greeting")]
  ELSE [mainTranslation |-> "kitab", wordByWord |-> <<>>, explanation |-> None]

JsonValid(t) == Len(t) = 1 /\ t[1] \in Docs

SyntaxError == Err(<<"Unexpected token S in JSON at position 0">>)
TrimOfUndefined == Err(<<"Cannot read properties of undefined (reading 'trim')">>)

\* What the provider answers to generateContent: a response with a text, a
\* response without text, or a rejection.
TextResponse(t) == [kind |-> "text", text |-> t, err |-> Err(<<>>)]
NoTextResponse == [kind |-> "notext", text |-> <<>>, err |-> Err(<<>>)]
Rejection(e) == [kind |-> "reject", text |-> <<>>, err |-> e]

Responses ==
  { TextResponse(<<"{doc1}">>), TextResponse(<<" ", "{doc2}", " ">>),
    TextResponse(<<"Sorry, I cannot translate this.">>), NoTextResponse }
  \cup { Rejection(e) : e \in ProviderErrors }

\* (a parse that fills in an empty explanation when the document has none)
TryTranslateDefaulted(r) ==
  CASE r.kind = "reject" -> [ok |-> FALSE, value |-> None, thrown |-> r.err]
    [] r.kind = "notext" -> [ok |-> FALSE, value |-> None, thrown |-> TrimOfUndefined]
    [] r.kind = "text" ->
         IF JsonValid(Trim(r.text))
         THEN [ok |-> TRUE,
               value |-> Some([DocOf(Trim(r.text)[1]) EXCEPT !.explanation = Some("")]),
               thrown |-> Err(<<>>)]
         ELSE [ok |-> FALSE, value |-> None, thrown |-> SyntaxError]

\* The value the body of the try block produces, or the value it throws.
TryTranslate(r) ==
  CASE r.kind = "reject" -> [ok |-> FALSE, value |-> None, thrown |-> r.err]
    [] r.kind = "notext" -> [ok |-> FALSE, value |-> None, thrown |-> TrimOfUndefined]
    [] r.kind = "text" ->
         IF JsonValid(Trim(r.text))
         THEN [ok |-> TRUE, value |-> Some(DocOf(Trim(r.text)[1])), thrown |-> Err(<<>>)]
         ELSE [ok |-> FALSE, value |-> None, thrown |-> SyntaxError]

\* catch (e) { throw new Error(...) }   (MODEL revision: no try/catch)
TranslatorError(svc, e) ==
  CASE svc = SvcLazy -> Err(<<"Failed to process translation.">>)
    [] svc = SvcChecked -> Err(<<"Translator failed to parse text.">>)
    [] svc = SvcServices ->
         Err(<<"Failed to get translation: ">> \o (IF e.isError THEN e.message ELSE e.str))
    [] svc = SvcFresh -> e

\* How the promise of getTranslatorResponse settles for a provider answer.
TranslatorOutcome(svc, r) ==
  LET t == TryTranslate(r)
  IN IF t.ok THEN t ELSE [t EXCEPT !.thrown = TranslatorError(svc, t.thrown)]

\* ----------------------------------------------------- Stream Aggregator
Message(i, t, who, src) == [id |-> i, text |-> t, sender |-> who, sources |-> src]

\* m.sources || []
SrcList(m) == IF IsSome(m.sources) THEN Get(m.sources) ELSE <<>>

\* The elements of a at the indices in keep, in order.
RECURSIVE Pick(_, _, _)
Pick(a, keep, i) ==
  IF i > Len(a) THEN <<>>
  ELSE (IF i \in keep THEN <<a[i]>> ELSE <<>>) \o Pick(a, keep, i + 1)

\* .filter((v, i, a) => a.findIndex(t => t.uri === v.uri) === i)
UniqByUri(a) ==
  Pick(a, {i \in 1..Len(a) : \A j \in 1..(i - 1) : a[j].uri # a[i].uri}, 1)

\* Array.from(new Set(a)): a Set holds each object once, by identity.
UniqByRef(a) ==
  Pick(a, {i \in 1..Len(a) : \A j \in 1..(i - 1) : a[j].ref # a[i].ref}, 1)

\* The sources the bot placeholder is created with.
BotSources(ui) == IF ui \in {UiApp, UiBooks} THEN None ELSE Some(<<>>)

\* (a fold that keeps only the citations of the latest fragment)
FoldSourcesLatest(ui, old, new) == UniqByUri(new)

\* The citation list after one fold.
FoldSources(ui, old, new) ==
  CASE ui \in {UiChat, UiApp} -> UniqByUri(old \o new)
    [] ui = UiQaFilter -> UniqByUri(UniqByRef(old \o new))
    [] ui = UiQaSet -> UniqByRef(old \o new)

\* The sources field after one fold. BooksPage keeps plain content
\* (setContent(p => p + chunk.text)) and never reads chunk.sources.
FoldedSources(ui, m, frag) ==
  IF ui = UiBooks THEN m.sources
  ELSE Some(FoldSources(ui, SrcList(m), frag.sources))

\* (a fold that puts the new text in front)
FoldPrepend(ui, m, frag) ==
  [m EXCEPT !.text = JsStr(frag.text) \o m.text,
            !.sources = FoldedSources(ui, m, frag)]

\* (a fold that replaces the text)
FoldOverwrite(ui, m, frag) ==
  [m EXCEPT !.text = JsStr(frag.text),
            !.sources = FoldedSources(ui, m, frag)]

\* (a fold that joins the pieces with a line break)
FoldNewline(ui, m, frag) ==
  [m EXCEPT !.text = m.text \o <<"\n">> \o JsStr(frag.text),
            !.sources = FoldedSources(ui, m, frag)]

\* { ...m, text: m.text + chunk.text, sources: ... }
\* BooksPage: setContent(p => p + chunk.text), the content being kept as the
\* text of a single message without sources.
Fold(ui, m, frag) ==
  [m EXCEPT !.text = m.text \o JsStr(frag.text),
            !.sources = FoldedSources(ui, m, frag)]

\* (a fold that puts the bot message back when the list has lost it)
FoldIntoUpsert(ui, msgs, bot, frag) ==
  IF \E i \in 1..Len(msgs) : msgs[i].id = bot
  THEN [i \in 1..Len(msgs) |-> IF msgs[i].id = bot THEN Fold(ui, msgs[i], frag) ELSE msgs[i]]
  ELSE Append(msgs, Fold(ui, Message(bot, <<>>, "bot", BotSources(ui)), frag))

\* setMessages(prev => prev.map(m => m.id === botId ? fold : m))
FoldInto(ui, msgs, bot, frag) ==
  [i \in 1..Len(msgs) |-> IF msgs[i].id = bot THEN Fold(ui, msgs[i], frag) ELSE msgs[i]]

\* The catch block of ChatComponent.handleSubmit rewrites the bot message.
SorryText(e) ==
  <<"Sorry, something went wrong. Please try again. \n\n**Error:** ">>
    \o (IF e.isError THEN e.message ELSE <<"An unknown error occurred.">>)

CatchInto(ui, msgs, bot, e) ==
  IF ui = UiChat
  THEN [i \in 1..Len(msgs) |->
          IF msgs[i].id = bot THEN [msgs[i] EXCEPT !.text = SorryText(e)] ELSE msgs[i]]
  ELSE msgs

\* ------------------------------------------------------------------ state
VARIABLES
  ui,            \* the handler variant this process runs
  svc,           \* the service variant it imports
  apiKey,        \* process.env.API_KEY is a non-empty string
  aiInstance,    \* the module-level client handle: 0 is null, n the n-th client
  clientsBuilt,  \* how many times new GoogleGenAI(...) ran
  now,           \* the value of the last Date.now() read
  view,          \* the view or page on screen
  input,         \* the text field of the mounted component
  messages,      \* its message list
  loading,       \* its loading flag
  error,         \* its error banner (ChatComponent, TranslatorPage of App-1)
  result,        \* the translation on display
  gpc,           \* the stream generator: none, opening, iterating, done
  attached,      \* the component that started the stream is still mounted
  botId,         \* the bot id the running handler closed over
  yielded,       \* history: the fragments the generator yielded, in order
  failure,       \* history: the provider failure of this stream and the
                 \*          number of fragments yielded before it
  threw,         \* history: the exception the for-await loop raised
  delivered,     \* history: provider chunks delivered in this process
  requests,      \* history: requests started in this process
  streamCalls,   \* history: generateContentStream calls
  contentCalls,  \* history: generateContent calls
  tcalls,        \* translation calls in flight: is each one's component mounted
  tLast,         \* history: how the last translation call settled
  sent,          \* history: the request this stream sent to the provider
  pulled,        \* history: the provider chunks this stream was given, in order
  orphans,       \* streams of unmounted components that a later stream overtook
  asked,         \* history: chunks this stream's generator asked the provider for
  folds,         \* history: folds this stream's handler submitted
  swState,       \* the service worker: parsed, installing, installed, activated,
                 \*                     redundant
  swCache,       \* the URLs stored in the cache CACHE_NAME
  swFetches,     \* the fetch events it has not answered yet
  swHandled,     \* history: fetch events it was given
  swLast         \* history: how it answered the last fetch event it answered

vars ==
  <<ui, svc, apiKey, aiInstance, clientsBuilt, now, view, input, messages,
    loading, error, result, gpc, attached, botId, yielded, failure, threw,
    delivered, requests, streamCalls, contentCalls, tcalls, tLast, sent, pulled,
    orphans, asked, folds, swState, swCache, swFetches, swHandled, swLast>>

cfgVars == <<ui, svc, apiKey>>
componentVars == <<view, input, messages, loading, error, result>>
streamVars ==
  <<gpc, attached, botId, yielded, failure, threw, delivered, streamCalls, sent,
    pulled, orphans, asked, folds>>
translateVars == <<contentCalls, tcalls, tLast>>
clientVars == <<aiInstance, clientsBuilt>>
\* The page, and the worker beside it: they share no state.
appVars ==
  <<cfgVars, clientVars, now, componentVars, streamVars, requests, translateVars>>
swVars == <<swState, swCache, swFetches, swHandled, swLast>>

\* No fetch event answered yet.
NoAnswer == [url |-> "", from |-> "none", net |-> "pending", looked |-> FALSE]

\* What the user can type.
Inputs == {<<>>, <<" ">>, <<"q">>}

\* Milliseconds between the clock reads of two handler runs: none, or enough
\* to keep their ids apart (the two reads of one run are an instant apart;
\* the first read of a process is the origin).
Elapsed == {0, 2}

HomeView(u) ==
  CASE u = UiChat -> "qa" [] u = UiApp -> "dashboard" [] OTHER -> "menu"

\* (App's books view runs the same handler code as its qa view.)
ChatViews(u) ==
  CASE u = UiApp -> {"qa", "grammar"} [] u = UiBooks -> {"books"} [] OTHER -> {"qa"}

\* (The translator page next to BooksPage is the one next to QAPage.)
Views(u) ==
  ChatViews(u) \cup {HomeView(u)} \cup (IF u = UiBooks THEN {} ELSE {"translator"})

NoOutcome ==
  [kind |-> "none", cause |-> "none", detail |-> <<>>, thrown |-> Err(<<>>),
   value |-> None, answer |-> None, mounted |-> FALSE]

Init ==
  /\ ui \in Uis
  /\ svc \in Svcs
  /\ apiKey \in BOOLEAN
  /\ aiInstance = 0
  /\ clientsBuilt = 0
  /\ now = 0
  /\ view = HomeView(ui)
  /\ input = <<>>
  /\ messages = <<>>
  /\ loading = FALSE
  /\ error = None
  /\ result = None
  /\ gpc = "none"
  /\ attached = FALSE
  /\ botId = 0
  /\ yielded = <<>>
  /\ failure = None
  /\ threw = None
  /\ delivered = 0
  /\ requests = 0
  /\ streamCalls = 0
  /\ contentCalls = 0
  /\ tcalls = <<>>
  /\ tLast = NoOutcome
  /\ sent = None
  /\ pulled = <<>>
  /\ orphans = <<>>
  /\ asked = 0
  /\ folds = 0
  /\ swState = "parsed"
  /\ swCache = {}
  /\ swFetches = <<>>
  /\ swHandled = 0
  /\ swLast = NoAnswer

\* ------------------------------------------------------------ user events
\* onChange of the text field.
TypeInput(v) ==
  /\ view \in ChatViews(ui) \cup {"translator"}
  /\ v # input
  /\ input' = v
  /\ UNCHANGED <<cfgVars, swVars, clientVars, now, view, messages, loading, error, result,
                 streamVars, requests, translateVars>>

\* getAi() when it does not throw: the handle and the construction count.
AiAfterGet ==
  IF GetAiCaches(svc)
  THEN IF aiInstance = 0 THEN <<clientsBuilt + 1, clientsBuilt + 1>>
                         ELSE <<aiInstance, clientsBuilt>>
  ELSE <<aiInstance, clientsBuilt + 1>>

\* The stream a new request overtakes: still running, its component gone.
Overtaken == gpc \in {"opening", "iterating"} /\ ~attached

\* (a handler that takes a submit whatever its loading flag says)
IdleAlways == TRUE

\* if (!input.trim() || loading) return;  The handler of App-1's
\* TranslatorPage has no such test: its only caller, the Translate button,
\* is disabled while the page is loading.
Idle == ~loading

\* (a handler that starts the answer from what the last message holds)
PlaceholderResumed(bot) ==
  IF messages = <<>> THEN Message(bot, <<>>, "bot", BotSources(ui))
  ELSE [messages[Len(messages)] EXCEPT !.id = bot, !.sender = "bot"]

\* { id: botId, text: '', sender: 'bot', sources: [] }; setContent('')
Placeholder(bot) == Message(bot, <<>>, "bot", BotSources(ui))

\* The submit handler of a chat view, up to its first network await.  The
\* history variables follow the newest stream; a stream still running for a
\* component that is gone runs on among the orphans.
Submit(d) ==
  /\ view \in ChatViews(ui)
  /\ Trim(input) # <<>>
  /\ Idle
  /\ gpc \in {"none", "done"} \/ Overtaken
  /\ requests < MaxRequests
  /\ orphans' = IF Overtaken
                THEN Append(orphans, [gpc |-> gpc, botId |-> botId, n |-> 0])
                ELSE orphans
  /\ pulled' = <<>>
  /\ asked' = 0
  /\ folds' = 0
  /\ (requests = 0 \/ ui = UiBooks) => d = 0
  /\ LET userMsg == Message(now + d, input, "user", None)
         bot == IF ui = UiBooks THEN 0 ELSE now + d + 1
         botMsg == Placeholder(bot)
         listed == IF ui = UiBooks THEN <<botMsg>> ELSE messages \o <<userMsg, botMsg>>
     IN /\ now' = now + d
        /\ botId' = bot
        /\ input' = IF ui = UiBooks THEN input ELSE <<>>
        /\ yielded' = <<>>
        /\ failure' = None
        /\ attached' = TRUE
        /\ requests' = requests + 1
        /\ IF GetAiThrows(svc, apiKey)
           THEN \* the first next() rejects: catch, then finally
                /\ threw' = Some(ConfigError(svc))
                /\ messages' = CatchInto(ui, listed, bot, ConfigError(svc))
                /\ error' = IF ui = UiChat
                            THEN Some(<<"Error: ">> \o ConfigError(svc).message)
                            ELSE None
                /\ loading' = FALSE
                /\ gpc' = "done"
                /\ sent' = None
                /\ UNCHANGED <<clientVars, streamCalls>>
           ELSE /\ threw' = None
                /\ messages' = listed
                /\ error' = None
                /\ loading' = TRUE
                /\ gpc' = "opening"
                /\ aiInstance' = AiAfterGet[1]
                /\ clientsBuilt' = AiAfterGet[2]
                /\ streamCalls' = streamCalls + 1
                /\ sent' = Some(StreamRequest(svc, Feature(view),
                                              Contents(ui, svc, input)))
  /\ tLast' = NoOutcome
  /\ UNCHANGED <<cfgVars, swVars, view, result, delivered, contentCalls, tcalls>>

\* ------------------------------------------------------- provider events
\* (a generator that reads one chunk ahead of its consumer)
AskedAhead(n) == n + 2

\* for await (const chunk of result): the generator, started or resumed by
\* its consumer's next(), asks the provider stream for one more chunk.
AskedNext(n) == n + 1

\* generateContentStream resolves: the for-await over the result starts.
ProviderOpen ==
  /\ gpc = "opening"
  /\ gpc' = "iterating"
  /\ asked' = AskedNext(asked)
  /\ UNCHANGED <<cfgVars, swVars, clientVars, now, componentVars, attached, botId, yielded,
                 failure, threw, delivered, streamCalls, requests, translateVars,
                 sent, pulled, orphans, folds>>

\* The handler's loop body for one fragment (a no-op once its component is gone).
Folded(frag) == IF attached THEN FoldInto(ui, messages, botId, frag) ELSE messages

\* (a handler that never clears its loading flag)
FinishedStuck == loading

\* (a handler that clears its flag only for a stream that had opened)
FinishedWhenOpened == IF attached THEN gpc = "opening" ELSE loading

\* finally { setLoading(false) } / setLoading(false) after the try.
Finished == IF attached THEN FALSE ELSE loading

\* The catch block of streamResponse: one error fragment, folded by the
\* handler, then the generator returns and the handler leaves its loop.
YieldError(e) ==
  /\ yielded' = Append(yielded, ErrorFragment(svc, e))
  /\ messages' = Folded(ErrorFragment(svc, e))
  /\ folds' = folds + 1
  /\ asked' = asked
  /\ loading' = Finished
  /\ gpc' = "done"

\* The provider delivers a chunk: the generator maps it to a fragment and
\* yields it, the handler folds it and asks for the next one.
ProviderChunk(c) ==
  /\ gpc = "iterating"
  /\ asked > Len(pulled)
  /\ delivered < MaxChunks
  /\ delivered' = delivered + 1
  /\ pulled' = Append(pulled, c)
  /\ IF MapThrows(svc, c)
     THEN YieldError(InvalidUrl)
     ELSE /\ yielded' = Append(yielded, Fragment(svc, c, delivered + 1))
          /\ messages' = Folded(Fragment(svc, c, delivered + 1))
          /\ folds' = folds + 1
          /\ asked' = AskedNext(asked)
          /\ UNCHANGED <<loading, gpc>>
  /\ UNCHANGED <<cfgVars, swVars, clientVars, now, view, input, error, result, attached,
                 botId, failure, threw, streamCalls, requests, translateVars, sent,
                 orphans>>

\* The provider stream ends: the generator returns, the handler finishes.
ProviderEnd ==
  /\ gpc = "iterating"
  /\ gpc' = "done"
  /\ loading' = Finished
  /\ UNCHANGED <<cfgVars, swVars, clientVars, now, view, input, messages, error, result,
                 attached, botId, yielded, failure, threw, delivered, streamCalls,
                 requests, translateVars, sent, pulled, orphans, asked, folds>>

\* The provider fails, while the stream is opened or between two chunks.
ProviderFail(e) ==
  /\ gpc \in {"opening", "iterating"}
  /\ failure' = Some([err |-> e, after |-> Len(yielded)])
  /\ YieldError(e)
  /\ UNCHANGED <<cfgVars, swVars, clientVars, now, view, input, error, result, attached,
                 botId, threw, delivered, streamCalls, requests, translateVars, sent,
                 pulled, orphans>>

\* ---- streams whose component is gone
\* (one message list shared by every component)
OrphanFoldedShared(k, frag) == FoldInto(ui, messages, orphans[k].botId, frag)

\* setMessages of an unmounted component: React drops the update, the list
\* on screen belongs to another component.
OrphanFolded(k, frag) == messages

Without(q, k) == SubSeq(q, 1, k - 1) \o SubSeq(q, k + 1, Len(q))

OrphanOpen(k) ==
  /\ k \in 1..Len(orphans)
  /\ orphans[k].gpc = "opening"
  /\ orphans' = [orphans EXCEPT ![k].gpc = "iterating"]
  /\ UNCHANGED <<cfgVars, swVars, clientVars, now, componentVars, gpc, attached, botId,
                 yielded, failure, threw, delivered, streamCalls, sent, pulled,
                 requests, translateVars, asked, folds>>

\* Its handler still pulls every fragment and folds it.
OrphanChunk(k, c) ==
  /\ k \in 1..Len(orphans)
  /\ orphans[k].gpc = "iterating"
  /\ delivered < MaxChunks
  /\ delivered' = delivered + 1
  /\ IF MapThrows(svc, c)
     THEN /\ messages' = OrphanFolded(k, ErrorFragment(svc, InvalidUrl))
          /\ orphans' = Without(orphans, k)
     ELSE /\ messages' = OrphanFolded(k, Fragment(svc, c, delivered + 1))
          /\ orphans' = [orphans EXCEPT ![k].n = @ + 1]
  /\ UNCHANGED <<cfgVars, swVars, clientVars, now, view, input, loading, error, result, gpc,
                 attached, botId, yielded, failure, threw, streamCalls, sent, pulled,
                 requests, translateVars, asked, folds>>

OrphanEnd(k) ==
  /\ k \in 1..Len(orphans)
  /\ orphans[k].gpc = "iterating"
  /\ orphans' = Without(orphans, k)
  /\ UNCHANGED <<cfgVars, swVars, clientVars, now, componentVars, gpc, attached, botId,
                 yielded, failure, threw, delivered, streamCalls, sent, pulled,
                 requests, translateVars, asked, folds>>

OrphanFail(k, e) ==
  /\ k \in 1..Len(orphans)
  /\ messages' = OrphanFolded(k, ErrorFragment(svc, e))
  /\ orphans' = Without(orphans, k)
  /\ UNCHANGED <<cfgVars, swVars, clientVars, now, view, input, loading, error, result, gpc,
                 attached, botId, yielded, failure, threw, delivered, streamCalls,
                 sent, pulled, requests, translateVars, asked, folds>>

\* ------------------------------------------------------------ navigation
\* The history variables describe the latest request; they are dropped with
\* its results when the user leaves a finished request behind.
ForgetFinished ==
  /\ IF gpc = "done"
     THEN /\ gpc' = "none"
          /\ botId' = 0
          /\ yielded' = <<>>
          /\ failure' = None
          /\ threw' = None
          /\ sent' = None
          /\ pulled' = <<>>
          /\ asked' = 0
          /\ folds' = 0
     ELSE UNCHANGED <<gpc, botId, yielded, failure, threw, sent, pulled, asked, folds>>
  /\ tLast' = NoOutcome

\* App: the Back button.
Back ==
  /\ ui = UiApp
  /\ view # "dashboard"
  /\ view' = "dashboard"
  /\ UNCHANGED <<cfgVars, swVars, clientVars, now, input, messages, loading, error, result,
                 streamVars, requests, translateVars>>

\* App: a dashboard card: setMessages([]); setTransResult(null); setView(id).
OpenView(v) ==
  /\ ui = UiApp
  /\ view = "dashboard"
  /\ v \in Views(ui) \ {"dashboard"}
  /\ view' = v
  /\ messages' = <<>>
  /\ result' = None
  /\ ForgetFinished
  /\ UNCHANGED <<cfgVars, swVars, clientVars, now, input, loading, error, attached,
                 delivered, streamCalls, requests, contentCalls, tcalls, orphans>>

\* The page variants: the page on screen is unmounted, with its state, and
\* another one is mounted; requests in flight keep running without it.
SwitchPage(v) ==
  /\ ui # UiApp
  /\ v \in Views(ui) \ {view}
  /\ ui = UiChat \/ view = "menu" \/ v = "menu"
  /\ view' = v
  /\ input' = <<>>
  /\ messages' = <<>>
  /\ loading' = FALSE
  /\ error' = None
  /\ result' = None
  /\ attached' = FALSE
  /\ tcalls' = [i \in 1..Len(tcalls) |-> FALSE]
  /\ ForgetFinished
  /\ UNCHANGED <<cfgVars, swVars, clientVars, now, delivered, streamCalls, requests,
                 contentCalls, orphans>>

\* ------------------------------------------------------------ translation
\* The text an error value carries: its message, or String() of a non-Error.
ErrText(e) == IF e.isError THEN e.message ELSE e.str

\* err instanceof Error ? err.message : "An unknown error occurred."
BannerText(e) == IF e.isError THEN e.message ELSE <<"An unknown error occurred.">>

\* How a call settled: the outcome, the provider's answer if there was one,
\* and whether the component that awaited it was still mounted.
Settled(o, why, underlying, answer, mounted) ==
  [kind |-> IF o.ok THEN "resolved" ELSE "rejected",
   cause |-> IF o.ok THEN "none" ELSE why,
   detail |-> IF o.ok THEN <<>> ELSE ErrText(underlying),
   thrown |-> o.thrown,
   value |-> o.value,
   answer |-> answer,
   mounted |-> mounted]

\* handleTranslate, and App.handleSend in the translator view, up to the
\* await of the provider call.
TranslateSubmit ==
  /\ view = "translator"
  /\ Trim(input) # <<>>
  /\ Idle
  /\ requests < MaxRequests
  /\ requests' = requests + 1
  /\ input' = IF ui = UiApp THEN <<>> ELSE input
  /\ result' = IF ui \in {UiChat, UiApp} THEN None ELSE result
  /\ IF GetAiThrows(svc, apiKey)
     THEN \* the promise is rejected before any call: catch, then finally
          /\ tLast' = Settled([ok |-> FALSE, value |-> None, thrown |-> ConfigError(svc)],
                              "config", ConfigError(svc), None, TRUE)
          /\ error' = IF ui = UiChat THEN Some(BannerText(ConfigError(svc))) ELSE None
          /\ loading' = FALSE
          /\ UNCHANGED <<clientVars, contentCalls, tcalls>>
     ELSE /\ error' = None
          /\ loading' = TRUE
          /\ aiInstance' = AiAfterGet[1]
          /\ clientsBuilt' = AiAfterGet[2]
          /\ contentCalls' = contentCalls + 1
          /\ tcalls' = Append(tcalls, TRUE)
          /\ tLast' = NoOutcome
  /\ UNCHANGED <<cfgVars, swVars, now, view, messages, streamVars>>

WhyFailed(r) ==
  CASE r.kind = "reject" -> "provider" [] r.kind = "notext" -> "notext"
    [] OTHER -> "parse"

\* (a handler that calls the provider again when the answer was no use)
TranslateReturnRetry(i, r) ==
  /\ i \in 1..Len(tcalls)
  /\ ~TranslatorOutcome(svc, r).ok
  /\ contentCalls < requests + 1
  /\ contentCalls' = contentCalls + 1
  /\ UNCHANGED <<cfgVars, swVars, clientVars, now, componentVars, streamVars, requests,
                 tcalls, tLast>>

\* The provider answers the i-th call in flight: the promise settles and the
\* handler that awaited it runs to its end.
TranslateReturn(i, r) ==
  /\ i \in 1..Len(tcalls)
  /\ LET o == TranslatorOutcome(svc, r)
     IN /\ tLast' = Settled(o, WhyFailed(r), TryTranslate(r).thrown, Some(r), tcalls[i])
        /\ IF tcalls[i]
           THEN /\ result' = IF o.ok THEN o.value ELSE result
                /\ error' = IF ~o.ok /\ ui = UiChat THEN Some(BannerText(o.thrown))
                            ELSE error
                /\ loading' = FALSE
           ELSE UNCHANGED <<result, error, loading>>
  /\ tcalls' = SubSeq(tcalls, 1, i - 1) \o SubSeq(tcalls, i + 1, Len(tcalls))
  /\ UNCHANGED <<cfgVars, swVars, clientVars, now, view, input, messages, streamVars,
                 requests, contentCalls>>

\* ----------------------------------------------------- the service worker
CACHE_NAME == "signify-v5"
ASSETS == <<"./", "./index.html", "./manifest.json", "./index.tsx">>

\* What the pages under the worker's scope request: two of the assets, and
\* a file that is not among them.
SwRequests == {"./index.html", "./index.tsx", "./logo.png"}

\* The URLs a cache holds after cache.addAll(list).
Stored(list) == {list[i] : i \in 1..Len(list)}

\* self.addEventListener('install', ...): the browser installs the worker.
SwInstall ==
  /\ swState = "parsed"
  /\ swState' = "installing"
  /\ UNCHANGED <<appVars, swCache, swFetches, swHandled, swLast>>

\* caches.open(CACHE_NAME).then(cache => cache.addAll(ASSETS)) is fulfilled:
\* every asset was fetched and stored, waitUntil lets the install finish.
SwAddAllDone ==
  /\ swState = "installing"
  /\ swCache' = swCache \cup Stored(ASSETS)
  /\ swState' = "installed"
  /\ UNCHANGED <<appVars, swFetches, swHandled, swLast>>

\* addAll is rejected (an asset could not be fetched): nothing is stored, the
\* install fails and the worker is discarded.
SwAddAllFail ==
  /\ swState = "installing"
  /\ swState' = "redundant"
  /\ UNCHANGED <<appVars, swCache, swFetches, swHandled, swLast>>

\* The installed worker takes control of its pages.
SwActivate ==
  /\ swState = "installed"
  /\ swState' = "activated"
  /\ UNCHANGED <<appVars, swCache, swFetches, swHandled, swLast>>

\* self.addEventListener('fetch', ...): e.respondWith(fetch(e.request)...),
\* the network request is on its way.
SwFetch(u) ==
  /\ swState = "activated"
  /\ swHandled < MaxFetches
  /\ swHandled' = swHandled + 1
  /\ swFetches' = Append(swFetches, [url |-> u, net |-> "pending", stage |-> "network"])
  /\ UNCHANGED <<appVars, swState, swCache, swLast>>

\* (a worker that answers from its cache whatever the network said)
OnSettledCacheFirst(f, ok) == IF f.url \in swCache THEN "match" ELSE "respond"

\* fetch(e.request).catch(() => caches.match(e.request)): a fulfilled
\* network request is the answer, a rejected one runs the catch callback.
OnSettled(f, ok) == IF ok THEN "respond" ELSE "match"

\* The network request of the i-th pending event settles.
SwNetworkSettles(i, ok) ==
  /\ i \in 1..Len(swFetches)
  /\ swFetches[i].stage = "network"
  /\ LET f == [swFetches[i] EXCEPT !.net = IF ok THEN "ok" ELSE "failed"]
     IN IF OnSettled(f, ok) = "respond"
        THEN /\ swLast' = [url |-> f.url, from |-> IF ok THEN "network" ELSE "none",
                           net |-> f.net, looked |-> FALSE]
             /\ swFetches' = Without(swFetches, i)
        ELSE /\ swFetches' = [swFetches EXCEPT ![i] = [f EXCEPT !.stage = "cache"]]
             /\ swLast' = swLast
  /\ UNCHANGED <<appVars, swState, swCache, swHandled>>

\* caches.match(e.request) is fulfilled with the stored response, or with
\* undefined when no cache holds the request.
SwCacheAnswers(i) ==
  /\ i \in 1..Len(swFetches)
  /\ swFetches[i].stage = "cache"
  /\ swLast' = [url |-> swFetches[i].url,
                from |-> IF swFetches[i].url \in swCache THEN "cache" ELSE "nothing",
                net |-> swFetches[i].net, looked |-> TRUE]
  /\ swFetches' = Without(swFetches, i)
  /\ UNCHANGED <<appVars, swState, swCache, swHandled>>

SwNext ==
  \/ SwInstall
  \/ SwAddAllDone
  \/ SwAddAllFail
  \/ SwActivate
  \/ \E u \in SwRequests : SwFetch(u)
  \/ \E i \in 1..MaxFetches, ok \in BOOLEAN : SwNetworkSettles(i, ok)
  \/ \E i \in 1..MaxFetches : SwCacheAnswers(i)

\* ------------------------------------------------------------------ spec
Next ==
  \/ \E v \in Inputs : TypeInput(v)
  \/ \E d \in Elapsed : Submit(d)
  \/ ProviderOpen
  \/ \E c \in Chunks : ProviderChunk(c)
  \/ ProviderEnd
  \/ \E e \in ProviderErrors : ProviderFail(e)
  \/ Back
  \/ \E v \in Views(ui) : OpenView(v)
  \/ \E v \in Views(ui) : SwitchPage(v)
  \/ TranslateSubmit
  \/ \E i \in 1..MaxRequests, r \in Responses : TranslateReturn(i, r)
  \/ \E k \in 1..MaxRequests : OrphanOpen(k)
  \/ \E k \in 1..MaxRequests, c \in Chunks : OrphanChunk(k, c)
  \/ \E k \in 1..MaxRequests : OrphanEnd(k)
  \/ \E k \in 1..MaxRequests, e \in ProviderErrors : OrphanFail(k, e)

Spec == Init /\ [][Next]_vars

\* The worker, beside a page that stays as it is.
SwSpec == Init /\ [][SwNext]_vars

\* ================================================================ claims
\* The bot message of the request in progress or just finished, while the
\* component that shows it is mounted and has not cleared its list: the last
\* message of the list (0: there is none).
BotIndex ==
  IF attached /\ gpc # "none" /\ messages # <<>> THEN Len(messages) ELSE 0

\* The handlers that gather citations (the lesson search shows text only).
AccumulatesSources(u) == u # UiBooks

\* A citation as the reader sees it.
Cite(s) == [uri |-> s.uri, title |-> s.title]
Cites(list) == [i \in 1..Len(list) |-> Cite(list[i])]

\* F1.text + F2.text + ... + Fn.text
RECURSIVE ConcatTexts(_)
ConcatTexts(frags) ==
  IF frags = <<>> THEN <<>> ELSE JsStr(Head(frags).text) \o ConcatTexts(Tail(frags))

\* The citations of F1..Fn in arrival order.
RECURSIVE Arrived(_)
Arrived(frags) ==
  IF frags = <<>> THEN <<>> ELSE Cites(Head(frags).sources) \o Arrived(Tail(frags))

\* The first arrival of each URI, in arrival order.
RECURSIVE FirstArrivals(_, _)
FirstArrivals(cs, seen) ==
  IF cs = <<>> THEN <<>>
  ELSE IF Head(cs).uri \in seen THEN FirstArrivals(Tail(cs), seen)
       ELSE <<Head(cs)>> \o FirstArrivals(Tail(cs), seen \cup {Head(cs).uri})

\* d occurs in t as a contiguous piece.
Contains(t, d) ==
  \E i \in 0..(Len(t) - Len(d)) : SubSeq(t, i + 1, i + Len(d)) = d

ErrorMarkers == {"Error: ", "An error occurred: "}

\* C1: the citation list of a message never holds two entries with the same
\* URI, whichever handler accumulated it.
C1_NoDuplicateUri ==
  \A i \in 1..Len(messages) :
    \A j, k \in 1..Len(SrcList(messages[i])) :
      j # k => SrcList(messages[i])[j].uri # SrcList(messages[i])[k].uri

\* C2: the text of the bot message is the concatenation of the texts of the
\* fragments its stream has yielded so far, in the order they were yielded
\* (so it is after the last one).
C2_TextIsConcatenation ==
  (BotIndex > 0 /\ threw = None) =>
     messages[BotIndex].text = ConcatTexts(yielded)

C2_Witness ==
  /\ BotIndex > 0
  /\ gpc = "done"
  /\ failure = None
  /\ Len(yielded) = 2
  /\ JsStr(yielded[1].text) # <<>>
  /\ JsStr(yielded[2].text) # <<>>
  /\ yielded[1].text # yielded[2].text

\* C3: the citation list of the bot message holds each URI once, with the
\* title of its first arrival, in first-arrival order.
C3_FirstTitleWins ==
  (BotIndex > 0 /\ AccumulatesSources(ui)) =>
     Cites(SrcList(messages[BotIndex])) = FirstArrivals(Arrived(yielded), {})

\* C4: once the provider has failed after k fragments, the generator has
\* yielded exactly one more fragment, an error message without sources, it
\* has ended, and the consumer got no exception.
C4_FailureYieldsOneErrorFragment ==
  IsSome(failure) =>
     /\ gpc = "done"
     /\ threw = None
     /\ Len(yielded) = Get(failure).after + 1
     /\ yielded[Len(yielded)].sources = <<>>
     /\ IsSome(yielded[Len(yielded)].text)
     /\ Get(yielded[Len(yielded)].text) # <<>>
     /\ Head(Get(yielded[Len(yielded)].text)) \in ErrorMarkers

C4_Witness ==
  /\ IsSome(failure)
  /\ Get(failure).after >= 1
  /\ Len(yielded) = Get(failure).after + 1

\* C5: without an API key no provider client is built and no provider call
\* is made, and every request fails with the configuration error.
C5_NoKeyNoProviderCall ==
  ~apiKey =>
     /\ clientsBuilt = 0
     /\ streamCalls = 0
     /\ contentCalls = 0
     /\ gpc # "none" => threw = Some(ConfigError(svc))

\* C6: within the lifetime of a request a step never takes text away from a
\* message: the text before the step is a prefix of the text after it.  (A
\* new lesson search starts its own lifetime by emptying the content.)
C6_TextAppendOnly ==
  [][\A i \in 1..Len(messages) :
        i <= Len(messages')
           => \/ IsPrefix(messages[i].text, messages'[i].text)
              \/ ui = UiBooks /\ requests' = requests + 1]_vars

C6_Witness ==
  /\ ui = UiChat
  /\ IsSome(threw)
  /\ BotIndex > 0
  /\ messages[BotIndex].text = SorryText(Get(threw))

\* C7: folding a fragment with empty text and no citations changes neither
\* the text nor the citation list of the bot message.
C7_EmptyFoldIsNoOp ==
  [][(/\ BotIndex > 0
      /\ Len(yielded') = Len(yielded) + 1
      /\ yielded'[Len(yielded')] = [text |-> Some(<<>>), sources |-> <<>>])
     => /\ Len(messages') = Len(messages)
        /\ messages'[BotIndex].text = messages[BotIndex].text
        /\ SrcList(messages'[BotIndex]) = SrcList(messages[BotIndex])]_vars

C7_Witness ==
  /\ BotIndex > 0
  /\ Len(yielded) = 2
  /\ yielded[1].sources # <<>>
  /\ yielded[2] = [text |-> Some(<<>>), sources |-> <<>>]
  /\ gpc = "iterating"
  /\ Len(SrcList(messages[BotIndex])) >= 2

\* C8: when the provider fails after k fragments, the bot message holds the
\* k texts in order followed by the error text, and every citation the k
\* fragments brought is still in its list (in the handlers that gather
\* citations).
C8_FailureKeepsTextAndCitations ==
  (IsSome(failure) /\ BotIndex > 0) =>
     LET k == Get(failure).after
         m == messages[BotIndex]
     IN /\ m.text = ConcatTexts(SubSeq(yielded, 1, k))
                      \o ErrorText(svc, Get(failure).err)
        /\ AccumulatesSources(ui) =>
              \A i \in 1..k : \A j \in 1..Len(yielded[i].sources) :
                 \E n \in 1..Len(SrcList(m)) :
                    SrcList(m)[n].uri = yielded[i].sources[j].uri

C8_Witness ==
  /\ IsSome(failure)
  /\ BotIndex > 0
  /\ Get(failure).after = 2
  /\ yielded[1].sources # <<>>
  /\ yielded[2].sources # <<>>

\* C9: a response text that is not valid JSON rejects the translation with
\* an error from which the parse error's message can be read.
C9_ParseDetailCarried ==
  tLast.cause = "parse" =>
     tLast.kind = "rejected" /\ Contains(ErrText(tLast.thrown), tLast.detail)

\* C10: a failed provider call rejects the translation with an error that
\* carries the provider's error text.
C10_ProviderTextCarried ==
  tLast.cause = "provider" =>
     tLast.kind = "rejected" /\ Contains(ErrText(tLast.thrown), tLast.detail)

\* The document a response text holds, read without regard to the blanks
\* around it.
Unblank(t) == SelectSeq(t, LAMBDA x : x # " ")
SchemaConforming(t) == Len(Unblank(t)) = 1 /\ Unblank(t)[1] \in Docs
ParsedDocument(t) == DocOf(Unblank(t)[1])

\* C11: when the provider's response text is a schema-conforming document,
\* possibly with blanks around it, the translation resolves with exactly that
\* document: same mainTranslation, same wordByWord pairs in the same order,
\* same explanation (absent when the document has none), and the mounted
\* page displays that value.
C11_ResultMirrorsDocument ==
  (/\ IsSome(tLast.answer)
   /\ Get(tLast.answer).kind = "text"
   /\ SchemaConforming(Get(tLast.answer).text))
  => /\ tLast.kind = "resolved"
     /\ tLast.value = Some(ParsedDocument(Get(tLast.answer).text))
     /\ tLast.mounted => result = tLast.value

C11_Witness ==
  /\ tLast.kind = "resolved"
  /\ tLast.answer = Some(TextResponse(<<" ", "{doc2}", " ">>))
  /\ tLast.mounted
  /\ IsSome(result)
  /\ Get(result).explanation = None
  /\ Get(result).mainTranslation = "kitab"


InFlight == gpc \in {"opening", "iterating"}

\* C12 (as stated): every request started makes exactly one provider call,
\* generateContentStream for a stream and generateContent for a translation,
\* and no other step makes a call.
C12_OneCallPerRequest ==
  [][/\ (requests' = requests + 1 /\ view = "translator")
          => (contentCalls' = contentCalls + 1 /\ streamCalls' = streamCalls)
     /\ (requests' = requests + 1 /\ view # "translator")
          => (streamCalls' = streamCalls + 1 /\ contentCalls' = contentCalls)
     /\ requests' = requests
          => (streamCalls' = streamCalls /\ contentCalls' = contentCalls)]_vars

\* C12 (amended): a request that getAi rejects for want of an API key makes
\* no provider call; every other request makes exactly one, of its kind; no
\* other step (a failed or malformed answer included) makes a call.
C12_OneCallPerConfiguredRequest ==
  [][/\ (requests' = requests + 1 /\ GetAiThrows(svc, apiKey))
          => (streamCalls' = streamCalls /\ contentCalls' = contentCalls)
     /\ (requests' = requests + 1 /\ ~GetAiThrows(svc, apiKey) /\ view = "translator")
          => (contentCalls' = contentCalls + 1 /\ streamCalls' = streamCalls)
     /\ (requests' = requests + 1 /\ ~GetAiThrows(svc, apiKey) /\ view # "translator")
          => (streamCalls' = streamCalls + 1 /\ contentCalls' = contentCalls)
     /\ requests' = requests
          => (streamCalls' = streamCalls /\ contentCalls' = contentCalls)]_vars

C12_Witness ==
  /\ requests = 2
  /\ streamCalls = 1
  /\ contentCalls = 1
  /\ tLast.cause = "parse"
  /\ tcalls = <<>>
  /\ gpc = "done"
  /\ IsSome(failure)

\* C13: the provider client is constructed at most once in a process,
\* whichever service variant is in use.
C13_ClientBuiltOnce == clientsBuilt <= 1

\* C14: the request carries the web-search tool exactly when the stream is a
\* web-grounded one, and the configuration of a stream without web grounding
\* has no tools entry at all.
C14_ToolsIffWebGrounding ==
  IsSome(sent) =>
     /\ (Get(sent).config.tools = GoogleSearch) <=> UseWebGrounding(Get(sent).feature)
     /\ ~UseWebGrounding(Get(sent).feature) => "tools" \notin Get(sent).config.keys

\* A chunk all of whose usable citations can be given a title.
WellFormed(c) ==
  IsSome(c.grounding) =>
     \A j \in 1..Len(Get(c.grounding)) :
        (Get(c.grounding)[j].web /\ Get(c.grounding)[j].uri # "")
           => (Get(c.grounding)[j].title # "" \/ ValidUrl(Get(c.grounding)[j].uri))

\* C15: the fragment yielded for a chunk without text has the empty string
\* as its text, and the bot message never shows text that no chunk delivered.
C15_NoTextChunkYieldsEmptyText ==
  /\ \A i \in 1..Len(pulled) :
        (pulled[i].text \in {None, Some(<<>>)} /\ WellFormed(pulled[i]))
           => (i <= Len(yielded) /\ yielded[i].text = Some(<<>>))
  /\ BotIndex > 0 =>
        \A j \in 1..Len(messages[BotIndex].text) :
           messages[BotIndex].text[j] # "undefined"

\* The grounding entries of a chunk that have a web record with a URI.
Wanted(c) ==
  IF IsSome(c.grounding)
  THEN SelectSeq(Get(c.grounding), LAMBDA e : e.web /\ e.uri # "")
  ELSE <<>>

\* C16: the citations of the fragment yielded for a chunk are the chunk's
\* usable grounding entries in provider order, each with the provider's title
\* or, without one, a non-empty substitute.
C16_CitationsAreUsableEntries ==
  \A i \in 1..Len(pulled) :
     /\ i <= Len(yielded)
     /\ Len(yielded[i].sources) = Len(Wanted(pulled[i]))
     /\ \A j \in 1..Len(Wanted(pulled[i])) :
           /\ j <= Len(yielded[i].sources)
           /\ yielded[i].sources[j].uri = Wanted(pulled[i])[j].uri
           /\ yielded[i].sources[j].title # ""
           /\ Wanted(pulled[i])[j].title # ""
                 => yielded[i].sources[j].title = Wanted(pulled[i])[j].title

C18_FailureIsShown ==
  /\ (tLast.kind = "rejected" /\ tLast.mounted /\ view = "translator")
        => (IsSome(error) /\ Get(error) # <<>>)
  /\ (IsSome(threw) /\ BotIndex > 0)
        => ((IsSome(error) /\ Get(error) # <<>>) \/ messages[BotIndex].text # <<>>)

\* What a request accumulates when it runs alone: its fragments folded in
\* order into its own empty placeholder.
RECURSIVE FoldAlone(_, _, _)
FoldAlone(u, m, frags) ==
  IF frags = <<>> THEN m ELSE FoldAlone(u, Fold(u, m, Head(frags)), Tail(frags))

\* C19: whatever another stream does in the meantime, the bot message of a
\* request holds the text and the citations the request would have
\* accumulated alone; a step of the other stream changes nothing the
\* component shows.
C19_OverlappingStreamsIndependent ==
  (BotIndex > 0 /\ threw = None) =>
     LET alone == FoldAlone(ui, Message(botId, <<>>, "bot", BotSources(ui)), yielded)
     IN /\ messages[BotIndex].text = alone.text
        /\ SrcList(messages[BotIndex]) = SrcList(alone)

C19_Witness ==
  /\ Len(orphans) = 1
  /\ orphans[1].n = 1
  /\ orphans[1].botId = botId
  /\ attached
  /\ BotIndex > 0
  /\ Len(yielded) = 1
  /\ yielded[1].sources # <<>>
  /\ gpc = "iterating"

\* C20: once the user has left the view of a request whose stream is open, no
\* further fragment is pulled from that stream.
C20_AbandonedStreamNotPulled ==
  [][/\ (InFlight /\ (~attached \/ view \notin ChatViews(ui)) /\ requests' = requests)
          => Len(yielded') <= Len(yielded)
     /\ Len(orphans') = Len(orphans)
          => \A k \in 1..Len(orphans) : orphans'[k].n = orphans[k].n]_vars


\* The citations of a list that some fragment of frags brought.
Brought(list, frags) ==
  \A j \in 1..Len(list) :
     \E k \in 1..Len(Arrived(frags)) : Cite(list[j]) = Arrived(frags)[k]

\* C21: a new streaming request starts from an empty result (a bot message,
\* or lesson content, with empty text and no citations, before anything but
\* the handler's own catch has touched it), and from then on its result holds
\* only what its own fragments brought: nothing of an earlier request.
C21_StartsEmpty ==
  [][/\ (requests' = requests + 1 /\ view \in ChatViews(ui))
          => /\ messages' # <<>>
             /\ yielded' = <<>>
             /\ SrcList(messages'[Len(messages')]) = <<>>
             /\ messages'[Len(messages')].text =
                   IF IsSome(threw') /\ ui = UiChat THEN SorryText(Get(threw'))
                   ELSE <<>>
     /\ (BotIndex' > 0 /\ threw' = None)
          => /\ messages'[BotIndex'].text = ConcatTexts(yielded')
             /\ Brought(SrcList(messages'[BotIndex']), yielded')]_vars

C21_Witness ==
  /\ requests = 2
  /\ Len(messages) = 4
  /\ messages[2].text # <<>>
  /\ SrcList(messages[2]) # <<>>
  /\ BotIndex = 4
  /\ gpc = "iterating"
  /\ Len(yielded) = 1
  /\ messages[4].text # messages[2].text
  /\ SrcList(messages[4]) # <<>>


\* C22: the stream is pulled one fragment at a time: the generator has asked
\* the provider for at most one chunk more than the handler has folded, the
\* provider has delivered no chunk that was not asked for, and at most one
\* delivered fragment is ever waiting for its fold.
C22_OneFragmentInFlight ==
  /\ asked <= folds + 1
  /\ Len(pulled) <= asked
  /\ Len(yielded) <= folds + 1
  /\ gpc = "iterating" => asked = folds + 1

C22_Witness ==
  /\ gpc = "iterating"
  /\ folds = 2
  /\ asked = 3
  /\ Len(pulled) = 2
  /\ Len(yielded) = 2


\* The requests of the mounted component that are in flight: its stream, and
\* its translation calls.
Mounted(calls) == {i \in 1..Len(calls) : calls[i]}
InFlightOfComponent ==
  (IF attached /\ InFlight THEN 1 ELSE 0) + Cardinality(Mounted(tcalls))

\* C23: while a request of the component is in flight its loading flag is
\* set, and while the flag is set no step starts a request or makes a
\* provider call (a submit changes nothing); so a component never has more
\* than one request, nor more than one provider call, in flight.
C23_SubmitIgnoredWhileLoading ==
  [][/\ InFlightOfComponent >= 1 => loading
     /\ loading => /\ requests' = requests
                   /\ streamCalls' = streamCalls
                   /\ contentCalls' = contentCalls
                   /\ Len(messages') <= Len(messages)
     /\ InFlightOfComponent' <= 1]_vars

C23_Witness ==
  /\ loading
  /\ Trim(input) # <<>>
  /\ InFlightOfComponent = 1
  /\ requests < MaxRequests
  /\ view \in ChatViews(ui) \cup {"translator"}


\* The provider keeps its side of every call it accepted: a stream that is
\* being opened opens or fails, an open stream ends or fails, a translation
\* call is answered.  Nothing is assumed of the user.
ProviderResponds ==
  /\ WF_vars(ProviderOpen)
  /\ WF_vars(ProviderEnd)
  /\ WF_vars(\E i \in 1..MaxRequests, r \in Responses : TranslateReturn(i, r))

LiveSpec == Spec /\ ProviderResponds

\* C24: whenever the loading flag is set it is cleared again, whichever way
\* the stream or the translation call terminates.
C24_LoadingEventuallyCleared == loading ~> ~loading

C24_Witness ==
  /\ ~loading
  /\ attached
  /\ gpc = "done"
  /\ requests = 2
  /\ IsSome(failure)
  /\ Get(failure).after = 0
  /\ tLast = NoOutcome


\* C25: a fold of a fragment changes the bot message of its own request and
\* nothing else: the list keeps its length and order, and every other
\* message keeps its text and its sources.
C25_FoldTouchesOnlyItsMessage ==
  [][(attached /\ BotIndex > 0 /\ folds' = folds + 1 /\ requests' = requests)
        => /\ Len(messages') = Len(messages)
           /\ \A i \in 1..Len(messages) :
                 i # BotIndex => messages'[i] = messages[i]]_vars


\* C26: the submit of a chat handler appends two messages, the user message
\* carrying the submitted text and after it a bot placeholder with empty
\* text (rewritten at once by the catch when the stream throws at once),
\* leaves the earlier messages as they were, clears the text field, and
\* sends the provider the text that was submitted.
C26_SubmitAppendsPair ==
  [][(requests' = requests + 1 /\ view \in ChatViews(ui) /\ ui # UiBooks)
        => /\ Len(messages') = Len(messages) + 2
           /\ SubSeq(messages', 1, Len(messages)) = messages
           /\ messages'[Len(messages) + 1].sender = "user"
           /\ messages'[Len(messages) + 1].text = input
           /\ messages'[Len(messages) + 2].sender = "bot"
           /\ threw' = None => messages'[Len(messages) + 2].text = <<>>
           /\ input' = <<>>
           /\ threw' = None => IsSome(sent')
           /\ IsSome(sent') => Get(sent').contents = input]_vars

C26_Witness ==
  /\ requests = 2
  /\ ui # UiBooks
  /\ Len(messages) = 4
  /\ messages[2].text # <<>>
  /\ messages[3].text = <<"q">>
  /\ messages[4].text = <<>>
  /\ gpc = "opening"
  /\ input = <<>>
  /\ IsSome(sent)
  /\ Get(sent).contents = <<"q">>


\* A text with nothing in it but blanks.
Blank(t) == \A i \in 1..Len(t) : t[i] = " "

\* C27: while the text field is empty or holds only blanks, no step (a
\* submit least of all) starts a request, appends a message, sets the
\* loading flag or calls the provider.
C27_BlankSubmitIsNoOp ==
  [][Blank(input)
        => /\ requests' = requests
           /\ Len(messages') <= Len(messages)
           /\ loading' => loading
           /\ streamCalls' = streamCalls
           /\ contentCalls' = contentCalls]_vars

C27_Witness ==
  /\ input = <<" ">>
  /\ ~loading
  /\ view = "translator"
  /\ requests = 1
  /\ tLast.kind = "resolved"
  /\ tcalls = <<>>


\* C28: in App, once a dashboard card has cleared the list under a stream
\* that is still in flight, the list stays empty whatever the stream still
\* delivers, and a later request starts only when no earlier stream is left
\* that could touch its messages.
C28_ClearedListStaysClear ==
  [][ui = UiApp
        => /\ (InFlight /\ messages = <<>> /\ requests' = requests) => messages' = <<>>
           /\ (requests' = requests + 1) => (~InFlight /\ orphans = <<>>)]_vars

C28_Witness ==
  /\ ui = UiApp
  /\ view = "qa"
  /\ messages = <<>>
  /\ gpc = "done"
  /\ IsSome(failure)
  /\ Get(failure).after = 0
  /\ Len(yielded) = 1
  /\ folds = 1
  /\ ~loading


\* C29: on the translator page, once the latest translation request has
\* finished, a translation on display is the one that request produced: after
\* a failed request none is displayed.
C29_ResultIsOfLatestRequest ==
  (view = "translator" /\ tLast.mounted /\ tcalls = <<>>)
     => /\ tLast.kind = "resolved" => result = tLast.value
        /\ tLast.kind = "rejected" => result = None


\* C30: the worker answers network-first.  An answer comes from the network
\* exactly when the network request succeeded, the cache is looked into only
\* for an event whose network request failed, and the cache changes only
\* when the install stores the asset list: no fetch event writes it.
C30_NetworkFirst ==
  [][/\ swLast'.from # "none"
          => /\ swLast'.net = "ok" <=> swLast'.from = "network"
             /\ swLast'.net = "failed" <=> swLast'.looked
             /\ swLast'.from = "cache" => swLast'.url \in swCache
     /\ \A i \in 1..Len(swFetches') :
           swFetches'[i].stage = "cache" => swFetches'[i].net = "failed"
     /\ swCache' # swCache
          => /\ swState = "installing"
             /\ swCache = {}
             /\ swCache' = Stored(ASSETS)
             /\ swFetches' = swFetches]_vars

C30_Witness ==
  /\ swState = "activated"
  /\ swCache = Stored(ASSETS)
  /\ swLast.from = "cache"
  /\ swLast.url = "./index.html"
  /\ swHandled = 3
  /\ Len(swFetches) = 2
  /\ swFetches[1].stage = "cache"
  /\ swFetches[1].url = "./logo.png"
  /\ swFetches[2].stage = "network"

====
